---------------------------- MODULE Spec2Model ----------------------------
(***************************************************************************)
(* Think Mate (SmartAssistant): the tool layer of src/tools_module.py and  *)
(* the chat loop of src/app.py and src/app2.py.                            *)
(*                                                                         *)
(* Three specifications share the module:                                  *)
(*   Spec      one tool call after another inside one session, every       *)
(*             external provider answering nondeterministically;           *)
(*   ChatSpec  the chat loop: user input, the agent executor's run, and    *)
(*             the history kept in st.session_state (FairChatSpec adds     *)
(*             the progress of a started run);                             *)
(*   PostSpec  the records of one run and the result post-processor that   *)
(*             looks for a photo result among them.                        *)
(*                                                                         *)
(* Representation.  A Python dict is a function with string keys; a        *)
(* Python list is a sequence; d.get(k) is DictGet (empty sequence for      *)
(* None).  A string the code takes apart (a currency code, a date) is a    *)
(* sequence of one-character strings; a string the code only builds is a   *)
(* sequence of tokens.  A float is a fixed-point integer whose unit is     *)
(* given where it is used.  A call ends in Return(type, value) or in       *)
(* Raise(exception).                                                       *)
(***************************************************************************)
EXTENDS Integers, Sequences, FiniteSets, TLC

VARIABLES
    call,          \* the tool call being looked at: tool name and arguments
    resp,          \* what the external provider(s) answer during that call
    ret,           \* how the call ended: Return(...) or Raise(...)
    requests,      \* the external requests the call issued, in order
    last_places,   \* st.session_state.last_places
    app,           \* which front end runs the session: "app" or "app2"
    chat_history,  \* st.session_state.chat_history
    pc,            \* position of the script run handling the user input
    user_input,    \* the text submitted to st.chat_input
    iterations,    \* AgentExecutor's iteration counter of the current run
    tool_calls,    \* tool calls executed in the current run
    ai_response,   \* local ai_response of the handler
    stdout,        \* what sys.stdout is bound to
    intermediate_steps,  \* the tool invocation records of the current run
    extracted      \* what the result post-processor took from that run

toolVars == <<call, resp, ret, requests, last_places>>
chatVars == <<app, chat_history, pc, user_input, iterations, tool_calls,
              ai_response, stdout>>
runVars == <<intermediate_steps, extracted>>
vars == <<call, resp, ret, requests, last_places, app, chat_history, pc,
          user_input, iterations, tool_calls, ai_response, stdout,
          intermediate_steps, extracted>>

-----------------------------------------------------------------------------
(* Python values                                                           *)

Return(type, value) == [tag |-> "return", type |-> type, value |-> value]
Raise(exception) == [tag |-> "raise", exception |-> exception]

NoCall == [tool |-> "none"]
NoReturn == [tag |-> "none"]

\* d.get(k): <<v>> when the key is there, <<>> (None) when it is not
DictGet(d, k) == IF k \in DOMAIN d THEN <<d[k]>> ELSE <<>>

\* d.get(k, default)
DictGetDefault(d, k, default) == IF k \in DOMAIN d THEN d[k] ELSE default

\* what requests.get(...) followed by .json() can give
TransportError == [kind |-> "transport_error"]
NotJson(status) == [kind |-> "not_json", status |-> status]
Json(status, data) == [kind |-> "json", status |-> status, data |-> data]

Request(provider, target) == [provider |-> provider, target |-> target]

\* how a tool call ends and the external requests it issued on the way
Outcome(result, issued) == [ret |-> result, requests |-> issued]

-----------------------------------------------------------------------------
(* str.upper()                                                             *)

UpperChar(c) ==
    CASE c = "u" -> "U" [] c = "s" -> "S" [] c = "d" -> "D"
      [] c = "i" -> "I" [] c = "n" -> "N" [] c = "r" -> "R"
      [] OTHER -> c

Upper(s) == [i \in 1..Len(s) |-> UpperChar(s[i])]

-----------------------------------------------------------------------------
(* round(x, 2).  x is given in thousandths, the result is in hundredths;   *)
(* ties go to the even hundredth.                                          *)

Round2(thousandths) ==
    LET q == thousandths \div 10
        r == thousandths % 10
    IN  IF r < 5 THEN q
        ELSE IF r > 5 THEN q + 1
        ELSE IF q % 2 = 0 THEN q ELSE q + 1

-----------------------------------------------------------------------------
(* convert_currency_amount.  amount is in tenths, conversion_rate in       *)
(* hundredths, the result in hundredths.  provider maps the requested pair *)
(* to the currency provider's answer.                                      *)

UnsupportedCode ==
    Json(200, ("result" :> "error") @@ ("error-type" :> "unsupported-code"))

\* the answer of the exchange-rate service to GET .../pair/{from}/{to}
CurrencyProvider(provider, pair) ==
    IF pair \in DOMAIN provider THEN provider[pair] ELSE UnsupportedCode

\* the part of the body after requests.get(url).json()
convert_currency_result(amount, from_currency, to_currency, response) ==
    IF response.kind = "transport_error" THEN Raise("ConnectionError")
    ELSE IF response.kind = "not_json" THEN Raise("JSONDecodeError")
    ELSE LET data == response.data
             conversion_rate == DictGet(data, "conversion_rate")
         IN  IF DictGet(data, "result") = <<"error">>
             THEN Return("str", <<"Error fetching rate:",
                      DictGetDefault(data, "error-type", "Unknown error")>>)
             ELSE IF conversion_rate = <<>>
             THEN Return("str", <<"Could not find conversion rate for",
                      from_currency, "to", to_currency>>)
             ELSE Return("float", Round2(amount * conversion_rate[1]))

\* a slip: to_currency is not upper-cased
convert_currency_amount_no_upper(amount, from_currency, to_currency, provider) ==
    LET from_upper == Upper(from_currency)
        url == <<from_upper, to_currency>>
    IN  Outcome(convert_currency_result(amount, from_upper, to_currency,
                    CurrencyProvider(provider, url)),
                <<Request("currency", url)>>)

\* a slip: a missing rate is multiplied as if it were 0
convert_currency_amount_no_none_check(amount, from_currency, to_currency, provider) ==
    LET from_upper == Upper(from_currency)
        to_upper == Upper(to_currency)
        url == <<from_upper, to_upper>>
        response == CurrencyProvider(provider, url)
    IN  Outcome(IF response.kind = "json"
                   /\ DictGet(response.data, "result") # <<"error">>
                   /\ DictGet(response.data, "conversion_rate") = <<>>
                THEN Return("float", Round2(amount * 0))
                ELSE convert_currency_result(amount, from_upper, to_upper, response),
                <<Request("currency", url)>>)

convert_currency_amount(amount, from_currency, to_currency, provider) ==
    LET from_upper == Upper(from_currency)
        to_upper == Upper(to_currency)
        url == <<from_upper, to_upper>>
    IN  Outcome(convert_currency_result(amount, from_upper, to_upper,
                    CurrencyProvider(provider, url)),
                <<Request("currency", url)>>)

-----------------------------------------------------------------------------
(* str.split(sep): the pieces between the occurrences of sep               *)

FirstIndex(s, sep) ==
    IF \E i \in 1..Len(s) : s[i] = sep
    THEN CHOOSE i \in 1..Len(s) : s[i] = sep /\ \A j \in 1..(i - 1) : s[j] # sep
    ELSE 0

RECURSIVE Split(_, _)
Split(s, sep) ==
    LET i == FirstIndex(s, sep)
    IN  IF i = 0 THEN <<s>>
        ELSE <<SubSeq(s, 1, i - 1)>> \o Split(SubSeq(s, i + 1, Len(s)), sep)

-----------------------------------------------------------------------------
(* get_holiday.  date is a sequence of characters; response is the holiday *)
(* provider's answer, its JSON body a list of holiday records.             *)

\* a slip: the status is looked at only after the empty-body test
get_holiday_body_first(date, country, response) ==
    LET parts == Split(date, "-")
    IN  IF Len(parts) # 3 THEN Outcome(Raise("ValueError"), <<>>)
        ELSE LET url == [country |-> country, year |-> parts[1],
                         month |-> parts[2], day |-> parts[3]]
                 issued == <<Request("holiday", url)>>
             IN  IF response.kind = "transport_error"
                 THEN Outcome(Raise("ConnectionError"), issued)
                 ELSE IF response.kind = "not_json"
                 THEN Outcome(Raise("JSONDecodeError"), issued)
                 ELSE IF response.data = <<>>
                 THEN Outcome(Return("dict",
                          [message |-> <<"No holiday on", date, "in", country>>]),
                          issued)
                 ELSE IF response.status # 200
                 THEN Outcome(Return("dict",
                          [error |-> <<"HTTP", response.status>>]), issued)
                 ELSE Outcome(Return("dict",
                          [date |-> DictGet(response.data[1], "date"),
                           name |-> DictGet(response.data[1], "name"),
                           type |-> DictGet(response.data[1], "type"),
                           location |-> DictGet(response.data[1], "location")]),
                          issued)

\* a slip: only the first three pieces are looked at, as date.split("-")[:3]
get_holiday_extra_parts_ignored(date, country, response) ==
    LET parts == Split(date, "-")
    IN  IF Len(parts) < 3 THEN Outcome(Raise("ValueError"), <<>>)
        ELSE LET url == [country |-> country, year |-> parts[1],
                         month |-> parts[2], day |-> parts[3]]
                 issued == <<Request("holiday", url)>>
             IN  IF response.kind = "transport_error"
                 THEN Outcome(Raise("ConnectionError"), issued)
                 ELSE IF response.status # 200
                 THEN Outcome(Return("dict",
                          [error |-> <<"HTTP", response.status>>]), issued)
                 ELSE IF response.kind = "not_json"
                 THEN Outcome(Raise("JSONDecodeError"), issued)
                 ELSE IF response.data = <<>>
                 THEN Outcome(Return("dict",
                          [message |-> <<"No holiday on", date, "in", country>>]),
                          issued)
                 ELSE Outcome(Return("dict",
                          [date |-> DictGet(response.data[1], "date"),
                           name |-> DictGet(response.data[1], "name"),
                           type |-> DictGet(response.data[1], "type"),
                           location |-> DictGet(response.data[1], "location")]),
                          issued)

get_holiday(date, country, response) ==
    LET parts == Split(date, "-")
    IN  IF Len(parts) # 3 THEN Outcome(Raise("ValueError"), <<>>)
        ELSE LET url == [country |-> country, year |-> parts[1],
                         month |-> parts[2], day |-> parts[3]]
                 issued == <<Request("holiday", url)>>
             IN  IF response.kind = "transport_error"
                 THEN Outcome(Raise("ConnectionError"), issued)
                 ELSE IF response.status # 200
                 THEN Outcome(Return("dict",
                          [error |-> <<"HTTP", response.status>>]), issued)
                 ELSE IF response.kind = "not_json"
                 THEN Outcome(Raise("JSONDecodeError"), issued)
                 ELSE IF response.data = <<>>
                 THEN Outcome(Return("dict",
                          [message |-> <<"No holiday on", date, "in", country>>]),
                          issued)
                 ELSE Outcome(Return("dict",
                          [date |-> DictGet(response.data[1], "date"),
                           name |-> DictGet(response.data[1], "name"),
                           type |-> DictGet(response.data[1], "type"),
                           location |-> DictGet(response.data[1], "location")]),
                          issued)

-----------------------------------------------------------------------------
(* d[k1][k2]...: a missing key raises KeyError                             *)

RECURSIVE HasPath(_, _)
HasPath(d, path) ==
    \/ path = <<>>
    \/ /\ Head(path) \in DOMAIN d
       /\ HasPath(d[Head(path)], Tail(path))

-----------------------------------------------------------------------------
(* weather_forecast                                                        *)

ForecastDayComplete(day) ==
    /\ HasPath(day, <<"date">>)
    /\ HasPath(day, <<"day", "maxtemp_c">>)
    /\ HasPath(day, <<"day", "mintemp_c">>)
    /\ HasPath(day, <<"day", "condition", "text">>)
    /\ HasPath(day, <<"day", "daily_chance_of_rain">>)

ForecastSummary(day) ==
    [date |-> day.date,
     max_temp_C |-> day.day.maxtemp_c,
     min_temp_C |-> day.day.mintemp_c,
     condition |-> day.day.condition.text,
     rain_chance |-> day.day.daily_chance_of_rain]

weather_forecast(location, days, response) ==
    LET location_query == <<location, ",IN">>
        issued == <<Request("weather", [q |-> location_query, days |-> days])>>
    IN  IF response.kind = "transport_error"
        THEN Outcome(Raise("ConnectionError"), issued)
        ELSE IF response.kind = "not_json"
        THEN Outcome(Raise("JSONDecodeError"), issued)
        ELSE LET data == response.data
             IN  IF "error" \in DOMAIN data
                 THEN IF HasPath(data, <<"error", "message">>)
                      THEN Outcome(Return("dict", [error |-> data.error.message]),
                                   issued)
                      ELSE Outcome(Raise("KeyError"), issued)
                 ELSE IF /\ HasPath(data, <<"location", "name">>)
                         /\ HasPath(data, <<"current", "temp_c">>)
                         /\ HasPath(data, <<"current", "condition", "text">>)
                         /\ HasPath(data, <<"forecast", "forecastday">>)
                         /\ \A i \in 1..Len(data.forecast.forecastday) :
                                ForecastDayComplete(data.forecast.forecastday[i])
                 THEN Outcome(Return("dict",
                          [location |-> data.location.name,
                           current_temp_C |-> data.current.temp_c,
                           condition |-> data.current.condition.text,
                           forecast_summary |->
                               [i \in 1..Len(data.forecast.forecastday) |->
                                   ForecastSummary(data.forecast.forecastday[i])]]),
                          issued)
                 ELSE Outcome(Raise("KeyError"), issued)

-----------------------------------------------------------------------------
(* current_datetime: strftime("%A, %B %d, %Y - %I:%M %p") of the clock     *)

current_datetime(now) ==
    Outcome(Return("str",
        <<now.weekday, ",", now.month, now.day, ",", now.year, "-",
          IF now.hour % 12 = 0 THEN 12 ELSE now.hour % 12, ":", now.minute,
          IF now.hour < 12 THEN "AM" ELSE "PM">>), <<>>)

-----------------------------------------------------------------------------
(* search_tool, and the two tools composed over it.  A search answer is    *)
(* [kind |-> "text", text |-> ...] or [kind |-> "raise"] (the search       *)
(* client raises on a transport fault or a rate limit).                    *)

search_tool(query, answer) ==
    IF answer.kind = "raise"
    THEN Outcome(Raise("DuckDuckGoSearchException"), <<Request("search", query)>>)
    ELSE Outcome(Return("str", answer.text), <<Request("search", query)>>)

budget_context_search(city_name, item_category, answer) ==
    LET query == <<"Average cost of", item_category, "in", city_name,
                   "in Indian rupees">>
        search_result == search_tool(query, answer)
    IN  IF search_result.ret.tag = "raise" THEN search_result
        ELSE Outcome(Return("str", <<"Cost context for", city_name, "(",
                         item_category, "):", search_result.ret.value>>),
                     search_result.requests)

safety_risk_radar(city, crime_answer, terrain_answer) ==
    LET crime_query == <<"latest crime trends and safety situation in", city,
                         "India 2025">>
        crime_info == search_tool(crime_query, crime_answer)
        terrain_query == <<"flood and landslide risk level in", city, "India">>
        terrain_info == search_tool(terrain_query, terrain_answer)
    IN  IF crime_info.ret.tag = "raise" THEN crime_info
        ELSE IF terrain_info.ret.tag = "raise"
        THEN Outcome(terrain_info.ret, crime_info.requests \o terrain_info.requests)
        ELSE Outcome(Return("dict",
                         [city |-> city,
                          crime_trends |-> crime_info.ret.value,
                          terrain_risk |-> terrain_info.ret.value]),
                     crime_info.requests \o terrain_info.requests)

-----------------------------------------------------------------------------
(* city_photos                                                             *)

city_photos(city, count, response) ==
    LET issued == <<Request("photos", [query |-> city, per_page |-> count])>>
    IN  IF response.kind = "transport_error"
        THEN Outcome(Raise("ConnectionError"), issued)
        ELSE IF response.kind = "not_json"
        THEN Outcome(Raise("JSONDecodeError"), issued)
        ELSE LET results == DictGetDefault(response.data, "results", <<>>)
             IN  IF \A i \in 1..Len(results) :
                        HasPath(results[i], <<"urls", "regular">>)
                 THEN Outcome(Return("dict",
                          [type |-> "photos",
                           urls |-> [i \in 1..Len(results) |->
                                        results[i].urls.regular]]), issued)
                 ELSE Outcome(Raise("KeyError"), issued)

-----------------------------------------------------------------------------
(* foursquare_places.  The names the body assigns are local to the whole   *)
(* function; `import streamlit as st` in the body makes st one of them, so *)
(* the read of st.secrets in the first statement finds st unbound.         *)

foursquare_places_locals ==
    {"SERVICE_KEY", "API_VERSION", "geo", "lat", "lon", "url", "headers",
     "params", "res", "places", "results", "place", "st"}

foursquare_places_parameters == {"city", "query", "radius_m", "limit"}

Cache(value) == [set |-> TRUE, value |-> value]
NoCache == [set |-> FALSE, value |-> <<>>]

FsqOutcome(result, issued, cache) ==
    [ret |-> result, requests |-> issued, last_places |-> cache]

PlaceSummary(place) ==
    LET categories == DictGetDefault(place, "categories", <<>>)
    IN  [name |-> DictGet(place, "name"),
         address |-> IF "location" \in DOMAIN place
                     THEN DictGet(place.location, "formatted_address")
                     ELSE <<>>,
         distance_m |-> DictGet(place, "distance"),
         categories |-> [i \in 1..Len(categories) |-> DictGet(categories[i], "name")],
         fsq_place_id |-> DictGet(place, "fsq_place_id")]

\* the body from the geocoding request on
foursquare_places_search(city, query, radius_m, limit, geo_response, places_response, cache) ==
    LET geo_request == Request("geocoding", [q |-> city, limit |-> 1])
    IN  IF geo_response.kind = "transport_error"
        THEN FsqOutcome(Raise("ConnectionError"), <<geo_request>>, cache)
        ELSE IF geo_response.kind = "not_json"
        THEN FsqOutcome(Raise("JSONDecodeError"), <<geo_request>>, cache)
        ELSE IF geo_response.data = <<>>
        THEN FsqOutcome(Return("dict", [error |-> <<"City", city, "not found">>]),
                        <<geo_request>>, cache)
        ELSE IF ~(/\ HasPath(geo_response.data[1], <<"lat">>)
                  /\ HasPath(geo_response.data[1], <<"lon">>))
        THEN FsqOutcome(Raise("KeyError"), <<geo_request>>, cache)
        ELSE LET lat == geo_response.data[1].lat
                 lon == geo_response.data[1].lon
                 issued == <<geo_request,
                             Request("places", [ll |-> <<lat, lon>>, query |-> query,
                                                radius |-> radius_m, limit |-> limit])>>
             IN  IF places_response.kind = "transport_error"
                 THEN FsqOutcome(Raise("ConnectionError"), issued, cache)
                 ELSE IF places_response.kind = "not_json"
                 THEN FsqOutcome(Raise("JSONDecodeError"), issued, cache)
                 ELSE LET places == DictGetDefault(places_response.data,
                                                   "results", <<>>)
                          results == [i \in 1..Len(places) |->
                                         PlaceSummary(places[i])]
                      IN  FsqOutcome(Return("dict",
                              [city |-> city,
                               coords |-> [lat |-> lat, lon |-> lon],
                               results_count |-> Len(results),
                               results |-> results]),
                              issued, Cache(results))

foursquare_places(city, query, radius_m, limit, geo_response, places_response, cache) ==
    IF "st" \in foursquare_places_locals \ foursquare_places_parameters
    THEN FsqOutcome(Raise("UnboundLocalError"), <<>>, cache)
    ELSE foursquare_places_search(city, query, radius_m, limit, geo_response,
                                  places_response, cache)

-----------------------------------------------------------------------------
(* full_trip_planner: the f-string, line by line, each line a sequence of  *)
(* tokens.  Only the four header fields are interpolated.                  *)

Digit(d) ==
    CASE d = 0 -> "0" [] d = 1 -> "1" [] d = 2 -> "2" [] d = 3 -> "3"
      [] d = 4 -> "4" [] d = 5 -> "5" [] d = 6 -> "6" [] d = 7 -> "7"
      [] d = 8 -> "8" [] OTHER -> "9"

\* str(n) of an int
RECURSIVE IntToStr(_)
IntToStr(n) ==
    IF n < 0 THEN "-" \o IntToStr(0 - n)
    ELSE IF n < 10 THEN Digit(n)
    ELSE IntToStr(n \div 10) \o Digit(n % 10)

StepLine(number, tool, arguments) ==
    <<number, "Call", tool, "tool", "(">> \o arguments \o <<")">>

\* a slip: the safety step is listed before the holiday step
full_trip_planner_swapped(city, start_date, end_date, budget) ==
    Outcome(Return("str",
        << <<"Start full trip planning for:">>,
           <<"City:", city>>,
           <<"Dates:", start_date, "to", end_date>>,
           <<"Budget:", IntToStr(budget)>>,
           <<"Now perform these steps in order:">>,
           StepLine("1.", "weather_forecast", <<"city">>),
           StepLine("2.", "safety_risk_radar", <<"city">>),
           StepLine("3.", "get_holiday", <<"start_date">>),
           StepLine("4.", "budget_context_search", <<"city">>),
           StepLine("5.", "foursquare_places", <<"city", ",", "'tourist'">>),
           StepLine("6.", "city_photos", <<"city">>),
           <<"Then summarize all tool results beautifully.">> >>), <<>>)

full_trip_planner(city, start_date, end_date, budget) ==
    Outcome(Return("str",
        << <<"Start full trip planning for:">>,
           <<"City:", city>>,
           <<"Dates:", start_date, "to", end_date>>,
           <<"Budget:", IntToStr(budget)>>,
           <<"Now perform these steps in order:">>,
           StepLine("1.", "weather_forecast", <<"city">>),
           StepLine("2.", "get_holiday", <<"start_date">>),
           StepLine("3.", "safety_risk_radar", <<"city">>),
           StepLine("4.", "budget_context_search", <<"city">>),
           StepLine("5.", "foursquare_places", <<"city", ",", "'tourist'">>),
           StepLine("6.", "city_photos", <<"city">>),
           <<"Then summarize all tool results beautifully.">> >>), <<>>)

-----------------------------------------------------------------------------
(* travel_quick_planner (app2.py): one f-string, token by token, the tool  *)
(* names between backticks.  And the catalogs: the tools list of app2.py,  *)
(* and the tools tools_module.py defines for the catalog built from it.    *)

\* the grave accent character that encloses a tool name in the text
Backtick == "GRAVE ACCENT"

travel_quick_planner(destination_city, date) ==
    Outcome(Return("str",
        <<"To generate a quick travel summary for", destination_city, "on", date,
          ", the agent will now proceed to use the",
          Backtick, "weather_forecast", Backtick, ".",
          Backtick, "budget_context", Backtick, "and",
          Backtick, "get_holiday", Backtick, "tools in sequence.">>), <<>>)

app2_tools ==
    {"current_datetime", "search_tool", "weather_forecast",
     "convert_currency_amount", "get_holiday", "budget_context_search",
     "travel_quick_planner"}

tools_module_tools ==
    {"current_datetime", "search_tool", "weather_forecast",
     "convert_currency_amount", "get_holiday", "budget_context_search",
     "safety_risk_radar", "foursquare_places", "city_photos",
     "full_trip_planner"}

-----------------------------------------------------------------------------
(* The inputs the calls are tried on, and the answers of the providers     *)

USD == <<"U", "S", "D">>
INR == <<"I", "N", "R">>

Amounts == {0, 5, 15, 10000, 0 - 25}
FromCurrencies == {USD, <<"u", "s", "d">>, <<"U", "s", "d">>, INR}
ToCurrencies == {INR, <<"i", "n", "r">>, <<"i", "N", "r">>}

CurrencyAnswers ==
    {TransportError, NotJson(200),
     Json(200, [result |-> "success", conversion_rate |-> 8335]),
     Json(200, [result |-> "success", conversion_rate |-> 125]),
     Json(200, [result |-> "success", conversion_rate |-> 0]),
     Json(200, [conversion_rate |-> 125]),
     Json(200, [result |-> "success"]),
     Json(200, [result |-> "error"]),
     Json(200, [result |-> "error", conversion_rate |-> 125]),
     UnsupportedCode}

\* the provider knows the pair USD/INR and answers it one way or another
CurrencyProviders == {(<<USD, INR>> :> a) : a \in CurrencyAnswers}

Dates ==
    {<<"2", "0", "2", "5", "-", "1", "2", "-", "2", "5">>,
     <<"2", "0", "2", "5", "-", "1", "2", "-", "2", "0">>,
     <<"2", "0", "2", "5", "/", "1", "2", "/", "2", "5">>,
     <<"2", "5", "-", "1", "2">>,
     <<"1", "-", "2", "-", "3", "-", "4">>,
     <<"a", "-", "b", "-", "c">>,
     <<>>}
Countries == {"IN", "US"}

Christmas ==
    [date |-> "12/25/2025", name |-> "Christmas", type |-> "National",
     location |-> "India"]
LocalFair == [name |-> "Local fair"]

HolidayStatuses == {200, 404, 500}
HolidayBodies == {<<>>, <<Christmas>>, <<LocalFair, Christmas>>, <<Christmas, LocalFair>>}
HolidayAnswers ==
    {TransportError}
      \cup {NotJson(status) : status \in HolidayStatuses}
      \cup {Json(status, body) : status \in HolidayStatuses, body \in HolidayBodies}

Cities == {"Agra", "Delhi"}
Locations == Cities \cup {"India"}
ForecastDays == {3, 14}

SunnyDay ==
    [date |-> "2025-12-20",
     day |-> [maxtemp_c |-> 24, mintemp_c |-> 9, condition |-> [text |-> "Sunny"],
              daily_chance_of_rain |-> 0]]
DayWithoutRainChance ==
    [date |-> "2025-12-21",
     day |-> [maxtemp_c |-> 22, mintemp_c |-> 8, condition |-> [text |-> "Mist"]]]

WeatherData(forecastday) ==
    [location |-> [name |-> "Agra"],
     current |-> [temp_c |-> 21, condition |-> [text |-> "Sunny"]],
     forecast |-> [forecastday |-> forecastday]]

WeatherAnswers ==
    {TransportError, NotJson(200),
     Json(200, WeatherData(<<SunnyDay, SunnyDay>>)),
     Json(200, WeatherData(<<>>)),
     Json(200, WeatherData(<<SunnyDay, DayWithoutRainChance>>)),
     Json(200, [location |-> [name |-> "Agra"],
                forecast |-> [forecastday |-> <<SunnyDay>>]]),
     Json(400, [error |-> [code |-> 1006, message |-> "No matching location found."]]),
     Json(403, [error |-> [code |-> 2008]])}

SearchAnswers ==
    {[kind |-> "text", text |-> "snippet"], [kind |-> "text", text |-> ""],
     [kind |-> "raise"]}
Queries == {"news", "today"}
Categories == {"daily budget per person", "local meal price"}

Clocks ==
    {[weekday |-> "Saturday", month |-> "December", day |-> 20, year |-> 2025,
      hour |-> hour, minute |-> 5] : hour \in {0, 9, 12, 23}}

Photo(url) == [id |-> "p", urls |-> [regular |-> url, small |-> "s.jpg"]]
PhotoAnswers ==
    {TransportError, NotJson(200),
     Json(200, [total |-> 2, results |-> <<Photo("a.jpg"), Photo("b.jpg")>>]),
     Json(200, [total |-> 5, results |->
         <<Photo("e.jpg"), Photo("a.jpg"), Photo("d.jpg"), Photo("b.jpg"),
           Photo("c.jpg")>>]),
     Json(200, [total |-> 0, results |-> <<>>]),
     Json(401, [errors |-> <<"OAuth error">>]),
     Json(200, [results |-> <<Photo("a.jpg"), [id |-> "q"]>>])}
PhotoCounts == {1, 5}

GeoAnswers ==
    {TransportError, NotJson(200), Json(200, <<>>),
     Json(200, <<[lat |-> "27.17", lon |-> "78.01"]>>),
     Json(200, <<[display_name |-> "Agra"]>>)}

TajMahal ==
    [name |-> "Taj Mahal", location |-> [formatted_address |-> "Agra 282001"],
     distance |-> 120, categories |-> <<[name |-> "Monument"]>>,
     fsq_place_id |-> "fsq1"]
Bazaar == [name |-> "Kinari Bazaar", fsq_place_id |-> "fsq2"]

PlacesAnswers ==
    {TransportError, NotJson(200),
     Json(200, [results |-> <<TajMahal, Bazaar>>]),
     Json(200, [results |-> <<Bazaar, TajMahal>>]),
     Json(200, [results |-> <<>>]),
     Json(401, [message |-> "Invalid request token."])}
PlaceQueries == {"restaurants", "tourist"}

TripDates == {"2025-12-20", "2025-12-22"}
Budgets == {30000, 50000}

-----------------------------------------------------------------------------
(* The session at its start, and the tool layer: one action per tool       *)

NotScanned == [scanned |-> FALSE]

RunInit ==
    /\ intermediate_steps = <<>>
    /\ extracted = NotScanned

ToolInit ==
    /\ call = NoCall
    /\ resp = <<>>
    /\ ret = NoReturn
    /\ requests = <<>>
    /\ last_places = NoCache

SystemTurn == [role |-> "system", content |-> "system prompt"]

SessionStart ==
    /\ chat_history = <<SystemTurn>>
    /\ pc = "idle"
    /\ user_input = ""
    /\ iterations = 0
    /\ tool_calls = 0
    /\ ai_response = ""
    /\ stdout = "sys.__stdout__"

\* a tool call c, answered by the providers as r, ending as outcome o
ToolStep(c, r, o) ==
    /\ call' = c
    /\ resp' = r
    /\ ret' = o.ret
    /\ requests' = o.requests
    /\ UNCHANGED runVars

CallCurrentDatetime ==
    \E now \in Clocks :
        /\ ToolStep([tool |-> "current_datetime"], now, current_datetime(now))
        /\ UNCHANGED last_places
        /\ UNCHANGED chatVars

CallSearchTool ==
    \E query \in Queries, answer \in SearchAnswers :
        /\ ToolStep([tool |-> "search_tool", query |-> query], answer,
                    search_tool(query, answer))
        /\ UNCHANGED last_places
        /\ UNCHANGED chatVars

CallWeatherForecast ==
    \E location \in Locations, days \in ForecastDays, answer \in WeatherAnswers :
        /\ ToolStep([tool |-> "weather_forecast", location |-> location,
                     days |-> days], answer,
                    weather_forecast(location, days, answer))
        /\ UNCHANGED last_places
        /\ UNCHANGED chatVars

CallConvertCurrencyAmount ==
    \E amount \in Amounts, from_currency \in FromCurrencies,
       to_currency \in ToCurrencies, provider \in CurrencyProviders :
        /\ ToolStep([tool |-> "convert_currency_amount", amount |-> amount,
                     from_currency |-> from_currency, to_currency |-> to_currency],
                    provider,
                    convert_currency_amount(amount, from_currency, to_currency,
                                            provider))
        /\ UNCHANGED last_places
        /\ UNCHANGED chatVars

CallGetHoliday ==
    \E date \in Dates, country \in Countries, answer \in HolidayAnswers :
        /\ ToolStep([tool |-> "get_holiday", date |-> date, country |-> country],
                    answer, get_holiday(date, country, answer))
        /\ UNCHANGED last_places
        /\ UNCHANGED chatVars

CallBudgetContextSearch ==
    \E city_name \in Cities, item_category \in Categories, answer \in SearchAnswers :
        /\ ToolStep([tool |-> "budget_context_search", city_name |-> city_name,
                     item_category |-> item_category], answer,
                    budget_context_search(city_name, item_category, answer))
        /\ UNCHANGED last_places
        /\ UNCHANGED chatVars

CallSafetyRiskRadar ==
    \E city \in Cities, crime_answer \in SearchAnswers, terrain_answer \in SearchAnswers :
        /\ ToolStep([tool |-> "safety_risk_radar", city |-> city],
                    <<crime_answer, terrain_answer>>,
                    safety_risk_radar(city, crime_answer, terrain_answer))
        /\ UNCHANGED last_places
        /\ UNCHANGED chatVars

CallFoursquarePlaces ==
    \E city \in Cities, query \in PlaceQueries, geo_answer \in GeoAnswers,
       places_answer \in PlacesAnswers :
        LET outcome == foursquare_places(city, query, 2000, 10, geo_answer,
                                         places_answer, last_places)
        IN  /\ ToolStep([tool |-> "foursquare_places", city |-> city,
                         query |-> query, radius_m |-> 2000, limit |-> 10],
                        [geo |-> geo_answer, places |-> places_answer], outcome)
            /\ last_places' = outcome.last_places
            /\ UNCHANGED chatVars

CallCityPhotos ==
    \E city \in Cities, count \in PhotoCounts, answer \in PhotoAnswers :
        /\ ToolStep([tool |-> "city_photos", city |-> city, count |-> count],
                    answer, city_photos(city, count, answer))
        /\ UNCHANGED last_places
        /\ UNCHANGED chatVars

CallFullTripPlanner ==
    \E city \in Cities, start_date \in TripDates, end_date \in TripDates,
       budget \in Budgets :
        /\ ToolStep([tool |-> "full_trip_planner", city |-> city,
                     start_date |-> start_date, end_date |-> end_date,
                     budget |-> budget], <<>>,
                    full_trip_planner(city, start_date, end_date, budget))
        /\ UNCHANGED last_places
        /\ UNCHANGED chatVars

CallTravelQuickPlanner ==
    \E destination_city \in Cities, date \in TripDates :
        /\ ToolStep([tool |-> "travel_quick_planner",
                     destination_city |-> destination_city, date |-> date], <<>>,
                    travel_quick_planner(destination_city, date))
        /\ UNCHANGED last_places
        /\ UNCHANGED chatVars

Init == ToolInit /\ SessionStart /\ RunInit /\ app = "app2"

Next ==
    \/ CallCurrentDatetime
    \/ CallSearchTool
    \/ CallWeatherForecast
    \/ CallConvertCurrencyAmount
    \/ CallGetHoliday
    \/ CallBudgetContextSearch
    \/ CallSafetyRiskRadar
    \/ CallFoursquarePlaces
    \/ CallCityPhotos
    \/ CallFullTripPlanner
    \/ CallTravelQuickPlanner

Spec == Init /\ [][Next]_vars

-----------------------------------------------------------------------------
(* Properties of the tool layer (checked under Spec)                       *)

Abs(x) == IF x < 0 THEN 0 - x ELSE x

\* r (hundredths) is x (thousandths) rounded to two decimals, ties to even
IsRoundedTo2(x, r) ==
    /\ Abs(10 * r - x) <= 5
    /\ Abs(10 * r - x) = 5 => r % 2 = 0

\* a JSON answer that is no error response and carries a conversion_rate
CarriesRate(answer) ==
    /\ answer.kind = "json"
    /\ DictGet(answer.data, "result") # <<"error">>
    /\ "conversion_rate" \in DOMAIN answer.data

IsNumber(result) == result.tag = "return" /\ result.type = "float"
IsString(result) == result.tag = "return" /\ result.type = "str"

\* C1: whenever the provider's answer for the currency pair A/B is no error
\* response and carries a conversion_rate, convert_currency_amount(amount, A, B)
\* returns amount * rate rounded to two decimals; and the value returned and
\* the pair requested from the provider are the same for every upper/lower-case
\* spelling of A and B.
C1_ConvertRoundsAndIgnoresCase ==
    call.tool = "convert_currency_amount" =>
        LET pair == <<Upper(call.from_currency), Upper(call.to_currency)>>
            answer == CurrencyProvider(resp, pair)
        IN  /\ CarriesRate(answer) =>
                /\ IsNumber(ret)
                /\ IsRoundedTo2(call.amount * answer.data.conversion_rate, ret.value)
            /\ requests = <<Request("currency", pair)>>
            /\ \A f \in FromCurrencies, t \in ToCurrencies :
                   Upper(f) = pair[1] /\ Upper(t) = pair[2] =>
                       convert_currency_amount(call.amount, f, t, resp)
                           = Outcome(ret, requests)

\* 1.5 units at rate 1.25, asked for as usd -> iNr: 1.875 rounds to 1.88
C1_Witness ==
    /\ call.tool = "convert_currency_amount"
    /\ call.amount = 15
    /\ call.from_currency = <<"u", "s", "d">>
    /\ call.to_currency = <<"i", "N", "r">>
    /\ CarriesRate(CurrencyProvider(resp, <<USD, INR>>))
    /\ ret = Return("float", 188)

\* C10: convert_currency_amount returns a number if and only if the answer to
\* the request it sent is no error response and carries a conversion_rate; when
\* the answer is an error response or has no rate it returns a string, never a
\* number.
C10_NumberIffRate ==
    call.tool = "convert_currency_amount" =>
        LET answer == CurrencyProvider(resp, requests[1].target)
        IN  /\ IsNumber(ret) <=> CarriesRate(answer)
            /\ (answer.kind = "json" /\ ~CarriesRate(answer)) => IsString(ret)

\* a success answer without conversion_rate: the explanatory string comes back
C10_Witness ==
    /\ call.tool = "convert_currency_amount"
    /\ resp[<<USD, INR>>] = Json(200, [result |-> "success"])
    /\ requests = <<Request("currency", <<USD, INR>>)>>
    /\ ret = Return("str", <<"Could not find conversion rate for", USD, "to", INR>>)

IsDigit(c) == c \in {"0", "1", "2", "3", "4", "5", "6", "7", "8", "9"}

\* YYYY-MM-DD
WellFormedDate(date) ==
    /\ Len(date) = 10
    /\ date[5] = "-" /\ date[8] = "-"
    /\ \A i \in {1, 2, 3, 4, 6, 7, 9, 10} : IsDigit(date[i])

IsErrorValue(result) == result.tag = "return" /\ "error" \in DOMAIN result.value
IsNoHolidayMessage(result) ==
    result.tag = "return" /\ "message" \in DOMAIN result.value
IsHolidayDescriptor(result) ==
    /\ result.tag = "return"
    /\ DOMAIN result.value = {"date", "name", "type", "location"}

\* C3: for a well-formed date, get_holiday returns the "No holiday" message (no
\* error key) when the provider answers 200 with an empty list, an {error}
\* value when the status is not 200 whatever the body, and the descriptor of
\* the first record when it answers 200 with a non-empty list; a returned value
\* has exactly one of the three shapes.
C3_HolidayOutcomes ==
    (call.tool = "get_holiday" /\ WellFormedDate(call.date)
        /\ resp.kind # "transport_error") =>
        /\ resp.status # 200 =>
               ret = Return("dict", [error |-> <<"HTTP", resp.status>>])
        /\ (resp.status = 200 /\ resp.kind = "json" /\ resp.data = <<>>) =>
               /\ ret = Return("dict",
                      [message |-> <<"No holiday on", call.date, "in", call.country>>])
               /\ ~IsErrorValue(ret)
        /\ (resp.status = 200 /\ resp.kind = "json" /\ resp.data # <<>>) =>
               ret = Return("dict",
                      [date |-> DictGet(resp.data[1], "date"),
                       name |-> DictGet(resp.data[1], "name"),
                       type |-> DictGet(resp.data[1], "type"),
                       location |-> DictGet(resp.data[1], "location")])
        /\ ret.tag = "return" =>
               /\ IsErrorValue(ret) \/ IsNoHolidayMessage(ret)
                      \/ IsHolidayDescriptor(ret)
               /\ ~(IsErrorValue(ret) /\ IsNoHolidayMessage(ret))
               /\ ~(IsErrorValue(ret) /\ IsHolidayDescriptor(ret))
               /\ ~(IsNoHolidayMessage(ret) /\ IsHolidayDescriptor(ret))

\* 200 with an empty list for 2025-12-20: the message, not an error
C3_Witness ==
    /\ call.tool = "get_holiday"
    /\ WellFormedDate(call.date)
    /\ resp = Json(200, <<>>)
    /\ IsNoHolidayMessage(ret)
    /\ requests # <<>>

\* reading the instruction string back: its numbered "Call ..." lines
IsStepLine(line) == Len(line) >= 6 /\ line[2] = "Call" /\ line[4] = "tool"
StepLines(text) == SelectSeq(text, IsStepLine)
StepNumber(line) == line[1]
StepTool(line) == line[3]
\* the tokens between the parentheses, commas dropped
IsNotComma(token) == token # ","
StepArguments(line) == SelectSeq(SubSeq(line, 6, Len(line) - 1), IsNotComma)

SixSteps ==
    <<"weather_forecast", "get_holiday", "safety_risk_radar",
      "budget_context_search", "foursquare_places", "city_photos">>

\* the tools of the plan whose first parameter is the city
CityTools ==
    {"weather_forecast", "safety_risk_radar", "budget_context_search",
     "foursquare_places", "city_photos"}

SixOrderedSteps(text) ==
    LET steps == StepLines(text)
    IN  /\ Len(steps) = 6
        /\ [i \in 1..6 |-> StepNumber(steps[i])] = <<"1.", "2.", "3.", "4.", "5.", "6.">>
        /\ [i \in 1..6 |-> StepTool(steps[i])] = SixSteps

\* C4 (as claimed): full_trip_planner issues no external call and returns six
\* steps in the order weather_forecast, get_holiday, safety_risk_radar,
\* budget_context_search, foursquare_places, city_photos, every step that takes
\* a city having the supplied city value as its argument.
C4_CityValueBoundInEveryStep ==
    call.tool = "full_trip_planner" =>
        /\ requests = <<>>
        /\ IsString(ret)
        /\ SixOrderedSteps(ret.value)
        /\ \A i \in 1..Len(StepLines(ret.value)) :
               StepTool(StepLines(ret.value)[i]) \in CityTools =>
                   Head(StepArguments(StepLines(ret.value)[i])) = call.city

\* C4 (amended): full_trip_planner issues no external call and returns the six
\* steps in that order; every step that takes a city carries the parameter
\* name `city` as its argument, not the supplied value, and the supplied value
\* is bound once, in the header line "City: <value>".
C4_CityBoundInHeaderOnly ==
    call.tool = "full_trip_planner" =>
        /\ requests = <<>>
        /\ IsString(ret)
        /\ SixOrderedSteps(ret.value)
        /\ \A i \in 1..Len(StepLines(ret.value)) :
               StepTool(StepLines(ret.value)[i]) \in CityTools =>
                   Head(StepArguments(StepLines(ret.value)[i])) = "city"
        /\ Cardinality({i \in 1..Len(ret.value) :
                            ret.value[i] = <<"City:", call.city>>}) = 1

\* full_trip_planner("Agra", "2025-12-20", "2025-12-22", 30000)
C4_Witness ==
    /\ call = [tool |-> "full_trip_planner", city |-> "Agra",
               start_date |-> "2025-12-20", end_date |-> "2025-12-22",
               budget |-> 30000]
    /\ IsString(ret)
    /\ ret.value[2] = <<"City:", "Agra">>
    /\ ret.value[4] = <<"Budget:", "30000">>
    /\ StepLines(ret.value)[5]
           = <<"5.", "Call", "foursquare_places", "tool", "(", "city", ",",
               "'tourist'", ")">>

\* C2: when the geocoding provider has no candidate for the city,
\* foursquare_places returns an error value without a `results` key, and the
\* geocoding request is the only external request of the call.
C2_UnresolvableCityIsAnErrorValue ==
    (call.tool = "foursquare_places" /\ resp.geo = Json(200, <<>>)) =>
        /\ ret.tag = "return"
        /\ "error" \in DOMAIN ret.value
        /\ "results" \notin DOMAIN ret.value
        /\ Len(requests) = 1
        /\ requests[1].provider = "geocoding"

\* C5: no tool call ends in a propagated fault, whatever the provider does
\* (transport failure, non-success status, missing fields), except get_holiday
\* failing to split its date.
C5_NoToolCallRaises ==
    ret.tag = "raise" =>
        call.tool = "get_holiday" /\ ret.exception = "ValueError"

GeocoderResolves(answer) ==
    /\ answer.kind = "json"
    /\ answer.data # <<>>
    /\ HasPath(answer.data[1], <<"lat">>)
    /\ HasPath(answer.data[1], <<"lon">>)

\* C9: last_places is written only by foursquare_places: a call of any other
\* tool leaves it unchanged, a foursquare_places call whose geocoding finds no
\* city leaves it unchanged, and after a foursquare_places call for a city the
\* geocoder resolves and a query the places provider answers, the cache is the
\* `results` list that call returned.
C9_CacheWrittenOnlyByPlaces ==
    [][/\ call'.tool # "foursquare_places" => last_places' = last_places
       /\ (call'.tool = "foursquare_places" /\ resp'.geo = Json(200, <<>>)) =>
              last_places' = last_places
       /\ (call'.tool = "foursquare_places" /\ GeocoderResolves(resp'.geo)
              /\ resp'.places.kind = "json") =>
              /\ ret'.tag = "return"
              /\ last_places' = Cache(ret'.value.results)]_vars

-----------------------------------------------------------------------------
(* The chat loop of app.py and app2.py.  Each submitted input reruns the   *)
(* script: it appends the user turn, calls agent_executor.invoke, and      *)
(* appends the assistant turn.  The executor is built without              *)
(* max_iterations, so it runs with the library's default of 15.  An        *)
(* exception out of invoke ends the script run where it is; the session    *)
(* state stays and the next input starts a new script run.                 *)

max_iterations == 15

MaxTurns == 2          \* user inputs submitted in one session
MaxCallsPerStep == 2   \* tool calls the planning model asks for in one step
IterationCap == 17     \* cap of the iteration counter, above max_iterations

UserTexts == {"plan a trip to Agra", "100 usd in inr"}
FinalAnswers == {"Here is your plan.", "That is 8335.0 INR."}
StoppedOutput == "Agent stopped due to iteration limit or time limit."

HumanMessage(content) == [role |-> "user", content |-> content]
AIMessage(content) == [role |-> "assistant", content |-> content]

UserTurns(history) ==
    Cardinality({i \in 1..Len(history) : history[i].role = "user"})

\* AgentExecutor._should_continue with max_execution_time unset
should_continue_unlimited(n) == TRUE

should_continue(n) == n < max_iterations

ChatInit == ToolInit /\ SessionStart /\ RunInit /\ app \in {"app", "app2"}

\* st.chat_input returns a text: the handler runs up to the call of invoke
Submit ==
    /\ pc = "idle"
    /\ UserTurns(chat_history) < MaxTurns
    /\ \E text \in UserTexts :
           /\ user_input' = text
           /\ chat_history' = Append(chat_history, HumanMessage(text))
    /\ stdout' = IF app = "app" THEN "log_capture" ELSE stdout
    /\ iterations' = 0
    /\ tool_calls' = 0
    /\ ai_response' = ""
    /\ pc' = "invoking"
    /\ UNCHANGED <<app, toolVars, runVars>>

\* one iteration of the executor: the model asks for tools, they all return
AgentToolStep ==
    /\ pc = "invoking"
    /\ should_continue(iterations)
    /\ iterations < IterationCap
    /\ \E k \in 1..MaxCallsPerStep : tool_calls' = tool_calls + k
    /\ iterations' = iterations + 1
    /\ UNCHANGED <<app, chat_history, pc, user_input, ai_response, stdout, toolVars, runVars>>

\* the model gives its final answer: invoke returns {"output": answer}
AgentFinish ==
    /\ pc = "invoking"
    /\ should_continue(iterations)
    /\ \E answer \in FinalAnswers : ai_response' = answer
    /\ pc' = "responded"
    /\ UNCHANGED <<app, chat_history, user_input, iterations, tool_calls, stdout,
                   toolVars, runVars>>

\* the iteration limit is reached: invoke returns the forced-stop output
AgentStopped ==
    /\ pc = "invoking"
    /\ ~should_continue(iterations)
    /\ ai_response' = StoppedOutput
    /\ pc' = "responded"
    /\ UNCHANGED <<app, chat_history, user_input, iterations, tool_calls, stdout,
                   toolVars, runVars>>

\* the planning model's call or a tool raises: the exception leaves invoke and
\* the handler, nothing after the call of invoke runs
RunRaises ==
    /\ pc = "invoking"
    /\ should_continue(iterations)
    /\ pc' = "idle"
    /\ iterations' = 0
    /\ tool_calls' = 0
    /\ UNCHANGED <<app, chat_history, user_input, ai_response, stdout, toolVars, runVars>>

\* a slip: the assistant turn overwrites the last turn instead of following it
AppendAssistantOverwrites ==
    /\ pc = "responded"
    /\ stdout' = IF app = "app" THEN "sys.__stdout__" ELSE stdout
    /\ chat_history' = [chat_history EXCEPT ![Len(chat_history)] = AIMessage(ai_response)]
    /\ pc' = "idle"
    /\ iterations' = 0
    /\ tool_calls' = 0
    /\ UNCHANGED <<app, user_input, ai_response, toolVars, runVars>>

\* the rest of the handler: stdout reset (app.py), the assistant turn appended
AppendAssistant ==
    /\ pc = "responded"
    /\ stdout' = IF app = "app" THEN "sys.__stdout__" ELSE stdout
    /\ chat_history' = Append(chat_history, AIMessage(ai_response))
    /\ pc' = "idle"
    /\ iterations' = 0
    /\ tool_calls' = 0
    /\ UNCHANGED <<app, user_input, ai_response, toolVars, runVars>>

RunStep == AgentToolStep \/ AgentFinish \/ AgentStopped \/ RunRaises

ChatNext ==
    \/ Submit
    \/ AgentToolStep
    \/ AgentFinish
    \/ AgentStopped
    \/ RunRaises
    \/ AppendAssistant

ChatSpec == ChatInit /\ [][ChatNext]_vars

\* a started run goes on: every call of the model and of a tool comes back
FairChatSpec == ChatSpec /\ WF_vars(RunStep) /\ WF_vars(AppendAssistant)

-----------------------------------------------------------------------------
(* Properties of the chat loop (checked under ChatSpec and FairChatSpec)   *)

LastTwo(history) == SubSeq(history, Len(history) - 1, Len(history))

\* C6: the history is append-only: its first element is always the system turn
\* set at session start, every step leaves the turns already there as they
\* are, and when the handling of an input completes the last two elements are
\* the user turn with the submitted text and the assistant turn with the run's
\* final output.
C6_HistoryAppendOnly ==
    /\ chat_history = <<SystemTurn>>
    /\ [][/\ Len(chat_history') >= Len(chat_history)
          /\ SubSeq(chat_history', 1, Len(chat_history)) = chat_history
          /\ chat_history'[1] = SystemTurn
          /\ (pc = "responded" /\ pc' = "idle") =>
                 /\ Len(chat_history') = Len(chat_history) + 1
                 /\ LastTwo(chat_history')
                        = <<HumanMessage(user_input), AIMessage(ai_response)>>]_vars

\* two completed turns, the second one stopped by the iteration limit
C6_Witness ==
    /\ pc = "idle"
    /\ chat_history =
           <<SystemTurn,
             HumanMessage("plan a trip to Agra"), AIMessage("Here is your plan."),
             HumanMessage("100 usd in inr"), AIMessage(StoppedOutput)>>

Alternates(history) ==
    \A i \in 2..Len(history) :
        history[i].role = IF i % 2 = 0 THEN "user" ELSE "assistant"

\* C7: in every reachable state the history after the system turn alternates
\* user, assistant, user, assistant, ..., also when the run for a turn fails.
C7_HistoryAlternates == Alternates(chat_history)

\* C8: every run terminates: the iteration counter never passes
\* max_iterations, so a run makes at most max_iterations * MaxCallsPerStep tool
\* calls; a run that has returned gave a final answer before the limit or the
\* forced-stop output at the limit; and a started run always ends.
C8_RunTerminates ==
    /\ [](/\ iterations <= max_iterations
          /\ tool_calls <= max_iterations * MaxCallsPerStep
          /\ pc = "responded" =>
                 \/ iterations < max_iterations /\ ai_response \in FinalAnswers
                 \/ iterations = max_iterations /\ ai_response = StoppedOutput)
    /\ (pc = "invoking" ~> pc # "invoking")

\* a model that asked for MaxCallsPerStep tools at every step, stopped at the limit
C8_Witness ==
    /\ pc = "responded"
    /\ iterations = max_iterations
    /\ tool_calls = max_iterations * MaxCallsPerStep
    /\ ai_response = StoppedOutput

-----------------------------------------------------------------------------
(* get_holiday and the date it is given (checked under Spec)               *)

Dashes(date) == Cardinality({i \in 1..Len(date) : date[i] = "-"})

RaisedWhileSplitting == ret = Raise("ValueError") /\ requests = <<>>

\* C12 (as claimed): get_holiday called with any date that is not a YYYY-MM-DD
\* date raises from the date-splitting step, before any request is sent.
C12_EveryMalformedDateRaises ==
    (call.tool = "get_holiday" /\ ~WellFormedDate(call.date)) =>
        RaisedWhileSplitting

\* C12 (amended): get_holiday raises ValueError from the date-splitting step,
\* before any request is sent, exactly for the dates that do not hold two "-",
\* that is, that do not split into three pieces; a malformed date that does
\* split into three pieces (such as a-b-c) raises nothing there and its pieces
\* are sent to the holiday provider as year, month and day.
C12_RaisesIffNotThreePieces ==
    call.tool = "get_holiday" =>
        /\ Dashes(call.date) # 2 => RaisedWhileSplitting
        /\ Dashes(call.date) = 2 =>
               /\ ret # Raise("ValueError")
               /\ Len(requests) = 1
               /\ requests[1].provider = "holiday"
               /\ <<requests[1].target.year, <<"-">>, requests[1].target.month,
                    <<"-">>, requests[1].target.day>>
                      = <<SubSeq(call.date, 1, Len(requests[1].target.year)),
                          <<"-">>,
                          SubSeq(call.date, Len(requests[1].target.year) + 2,
                                 Len(call.date) - Len(requests[1].target.day) - 1),
                          <<"-">>,
                          SubSeq(call.date,
                                 Len(call.date) - Len(requests[1].target.day) + 1,
                                 Len(call.date))>>

\* 1-2-3-4 has four pieces: ValueError, and nothing was requested
C12_Witness ==
    /\ call.tool = "get_holiday"
    /\ call.date = <<"1", "-", "2", "-", "3", "-", "4">>
    /\ RaisedWhileSplitting

-----------------------------------------------------------------------------
(* The planner tools and their catalogs (checked under Spec)               *)

PlannerTools == {"full_trip_planner", "travel_quick_planner"}

\* the catalog the planner tool is registered in
PlannerCatalog(tool) ==
    IF tool = "travel_quick_planner" THEN app2_tools ELSE tools_module_tools

\* the tokens of a text that stand between an opening and a closing backtick
BacktickedNames(text) ==
    {text[i] : i \in {j \in 1..Len(text) :
        /\ text[j] # Backtick
        /\ Cardinality({k \in 1..(j - 1) : text[k] = Backtick}) % 2 = 1}}

\* the tool names the instruction string tells the model to call
NamedTools(tool, text) ==
    IF tool = "travel_quick_planner" THEN BacktickedNames(text)
    ELSE {StepTool(StepLines(text)[i]) : i \in 1..Len(StepLines(text))}

\* C13: every tool name that a planner tool's instruction string tells the
\* model to call is the name of a tool registered in the planner's own catalog,
\* and the planner tool issues no external call.
C13_PlannerNamesRegisteredTools ==
    call.tool \in PlannerTools =>
        /\ requests = <<>>
        /\ IsString(ret)
        /\ NamedTools(call.tool, ret.value) \subseteq PlannerCatalog(call.tool)

-----------------------------------------------------------------------------
(* sys.stdout in app.py (checked under ChatSpec)                           *)

\* C14: in app.py, sys.stdout is bound to the per-turn log buffer only while
\* the handling of a user input is in progress: once the handling has ended,
\* by a final answer or by a failed run, sys.stdout is the original stream.
C14_StdoutRestoredAfterHandling ==
    (app = "app" /\ pc = "idle") => stdout = "sys.__stdout__"

-----------------------------------------------------------------------------
(* The result post-processor.  Its code is not in the sources at hand; it  *)
(* is modelled from the design: after a run it scans the run's invocation  *)
(* records in order for a result that is a mapping whose `type` field is   *)
(* "photos" and takes that result's url list, the last such result         *)
(* winning.  The results it scans are the ones the tools above return.     *)

MaxSteps == 4          \* tool invocation records of one run

\* == of two Python values of any type
PyEq(a, b) == ToString(a) = ToString(b)

InvocationRecord(tool, result) == [tool |-> tool, result |-> result]

Nothing == [found |-> FALSE, urls |-> <<>>]
Found(urls) == [found |-> TRUE, urls |-> urls]
Scanned(photos) == [scanned |-> TRUE, photos |-> photos]

\* the structural check: a mapping with the discriminator field
IsPhotoResult(result) ==
    /\ result.tag = "return"
    /\ result.type = "dict"
    /\ "type" \in DOMAIN result.value
    /\ PyEq(result.value.type, "photos")

RECURSIVE ScanSteps(_, _)
ScanSteps(steps, photos) ==
    IF steps = <<>> THEN photos
    ELSE ScanSteps(Tail(steps),
                   IF IsPhotoResult(Head(steps).result)
                   THEN Found(Head(steps).result.value.urls)
                   ELSE photos)

\* a slip: only the run's last invocation is looked at
extract_photos_last_record_only(steps) ==
    IF steps # <<>> /\ IsPhotoResult(steps[Len(steps)].result)
    THEN Found(steps[Len(steps)].result.value.urls)
    ELSE Nothing

extract_photos(steps) == ScanSteps(steps, Nothing)

\* what the tools of a run can hand back: photo results with five, two and no
\* urls, and results of the other shapes (a mapping with another `type`, a
\* mapping without one, a string, a number)
RunRecords ==
    {InvocationRecord("city_photos", city_photos("Agra", 5, answer).ret) :
        answer \in {a \in PhotoAnswers : city_photos("Agra", 5, a).ret.tag = "return"}}
    \cup
    {InvocationRecord("get_holiday",
         get_holiday(<<"2", "0", "2", "5", "-", "1", "2", "-", "2", "5">>, "IN",
                     Json(200, <<Christmas>>)).ret),
     InvocationRecord("weather_forecast",
         weather_forecast("Agra", 3,
             Json(400, [error |-> [code |-> 1006,
                                   message |-> "No matching location found."]])).ret),
     InvocationRecord("full_trip_planner",
         full_trip_planner("Agra", "2025-12-20", "2025-12-22", 30000).ret),
     InvocationRecord("convert_currency_amount",
         convert_currency_amount(15, USD, INR,
             (<<USD, INR>> :> Json(200, [conversion_rate |-> 125]))).ret)}

PostInit == ToolInit /\ SessionStart /\ RunInit /\ app = "app2"

\* the run executes one more tool and records what it returned
RecordInvocation ==
    /\ extracted = NotScanned
    /\ Len(intermediate_steps) < MaxSteps
    /\ \E record \in RunRecords :
           intermediate_steps' = Append(intermediate_steps, record)
    /\ UNCHANGED <<extracted, toolVars, chatVars>>

\* the run is over: its records are scanned
PostProcess ==
    /\ extracted = NotScanned
    /\ extracted' = Scanned(extract_photos(intermediate_steps))
    /\ UNCHANGED <<intermediate_steps, toolVars, chatVars>>

\* the next run starts with no records
NextRun ==
    /\ extracted # NotScanned
    /\ intermediate_steps' = <<>>
    /\ extracted' = NotScanned
    /\ UNCHANGED <<toolVars, chatVars>>

PostNext == RecordInvocation \/ PostProcess \/ NextRun

PostSpec == PostInit /\ [][PostNext]_vars

PhotoPositions(steps) ==
    {i \in 1..Len(steps) : IsPhotoResult(steps[i].result)}

\* C11: when exactly one record of the run carries the "photos" discriminator,
\* wherever it stands among the other records, the post-processor extracts
\* exactly that result's url list, same elements in the same order; when no
\* record carries the discriminator it extracts nothing.
C11_ExtractsTheOnePhotoResult ==
    extracted # NotScanned =>
        /\ \A i \in 1..Len(intermediate_steps) :
               PhotoPositions(intermediate_steps) = {i} =>
                   extracted.photos
                       = Found(intermediate_steps[i].result.value.urls)
        /\ PhotoPositions(intermediate_steps) = {} => extracted.photos = Nothing

\* one photo result with five urls, second among three results of other shapes
C11_Witness ==
    /\ extracted # NotScanned
    /\ Len(intermediate_steps) = 4
    /\ PhotoPositions(intermediate_steps) = {2}
    /\ intermediate_steps[1].tool = "get_holiday"
    /\ intermediate_steps[3].tool = "full_trip_planner"
    /\ intermediate_steps[4].tool = "convert_currency_amount"
    /\ extracted.photos
           = Found(<<"e.jpg", "a.jpg", "d.jpg", "b.jpg", "c.jpg">>)

=============================================================================
